---- MODULE Spec2Model ----
(***************************************************************************)
(* A model of archivebot.py: the directory cache (ENV), the SQLite archive *)
(* (messages, users, channels), the query handler handle_query, the event *)
(* classifier handle_message and the dispatch of one event by the main    *)
(* loop.  Python strings are TLA+ strings (TLC evaluates Len, Head, Tail, *)
(* SubSeq and \o on them); a Python value that may be None is a sequence  *)
(* of length at most one: <<>> is None and <<v>> is the value v.          *)
(***************************************************************************)
EXTENDS Integers, Sequences, FiniteSets, TLC

VARIABLES
    pc,        \* "start" before the bootstrap of lines 289-290, then "loop"
    schema,    \* the columns of the messages table of the opened database
    epoch,     \* which snapshot of the workspace directory the backend serves
    ENV,       \* the directory cache (lines 46-52)
    messages,  \* the rows of table messages, in rowid order
    users,     \* the rows of table users
    channels,  \* the rows of table channels
    nextId,    \* how many identifiers uuid.uuid4() has produced
    last,      \* what handling the last event did: the event, the messages
               \* sent, the store accesses, the audit lines, the exception
    dropped    \* the events of the last rtm_read() result that the loop of
               \* line 294 did not reach

vars == <<pc, schema, epoch, ENV, messages, users, channels, nextId, last, dropped>>

(***************************************************************************)
(* Bounds of the model.                                                    *)
(***************************************************************************)
MaxIds == 2   \* uuid.uuid4() is called at most this many times

(***************************************************************************)
(* Python values and string functions.                                     *)
(***************************************************************************)
None == <<>>
Some(v) == <<v>>

Char(s, i) == SubSeq(s, i, i)

UpperCase == "ABCDEFGHIJKLMNOPQRSTUVWXYZ"
LowerCase == "abcdefghijklmnopqrstuvwxyz"
Whitespace == {" ", "\t", "\n"}

LowerOf ==
    [c \in {Char(UpperCase, i) : i \in 1..Len(UpperCase)} |->
        Char(LowerCase, CHOOSE i \in 1..Len(UpperCase) : Char(UpperCase, i) = c)]

\* str.lower() on one character
LowerChar(c) == IF c \in DOMAIN LowerOf THEN LowerOf[c] ELSE c

RECURSIVE Lower(_)
Lower(s) == IF s = "" THEN "" ELSE LowerChar(Head(s)) \o Lower(Tail(s))

\* str.split() without argument: the maximal runs of non-whitespace
RECURSIVE SplitWs(_, _, _)
SplitWs(s, cur, acc) ==
    IF s = "" THEN (IF cur = "" THEN acc ELSE Append(acc, cur))
    ELSE IF Head(s) \in Whitespace
         THEN SplitWs(Tail(s), "", IF cur = "" THEN acc ELSE Append(acc, cur))
         ELSE SplitWs(Tail(s), cur \o Head(s), acc)

Split(s) == SplitWs(s, "", <<>>)

\* str.split(sep) for a one-character separator: always at least one piece
RECURSIVE SplitSep(_, _, _, _)
SplitSep(s, sep, cur, acc) ==
    IF s = "" THEN Append(acc, cur)
    ELSE IF Head(s) = sep
         THEN SplitSep(Tail(s), sep, "", Append(acc, cur))
         ELSE SplitSep(Tail(s), sep, cur \o Head(s), acc)

SplitOn(s, sep) == SplitSep(s, sep, "", <<>>)

\* str.replace(c, '') for a one-character c
RECURSIVE Remove(_, _)
Remove(s, c) ==
    IF s = "" THEN ""
    ELSE (IF Head(s) = c THEN "" ELSE Head(s)) \o Remove(Tail(s), c)

\* str.strip()
RECURSIVE LStrip(_)
LStrip(s) == IF s # "" /\ Head(s) \in Whitespace THEN LStrip(Tail(s)) ELSE s

RECURSIVE RStrip(_)
RStrip(s) ==
    IF s # "" /\ Char(s, Len(s)) \in Whitespace
    THEN RStrip(SubSeq(s, 1, Len(s) - 1)) ELSE s

Strip(s) == RStrip(LStrip(s))

\* ' '.join(list)
RECURSIVE Join(_)
Join(l) ==
    IF l = <<>> THEN ""
    ELSE IF Len(l) = 1 THEN l[1]
    ELSE l[1] \o " " \o Join(Tail(l))

Digits == "0123456789"
DigitSet == {Char(Digits, i) : i \in 1..Len(Digits)}
IsDigit(c) == c \in DigitSet
DigitVal(c) == (CHOOSE i \in 1..Len(Digits) : Char(Digits, i) = c) - 1

RECURSIVE DecVal(_, _)
DecVal(s, acc) == IF s = "" THEN acc ELSE DecVal(Tail(s), 10 * acc + DigitVal(Head(s)))

AllDigits(s) == s # "" /\ \A i \in 1..Len(s) : IsDigit(Char(s, i))

\* int(s): None stands for the ValueError.  Surrounding whitespace and one
\* sign are accepted, as int() accepts them.
ParseInt(s) ==
    LET t == Strip(s)
        signed == t # "" /\ Head(t) \in {"+", "-"}
        body == IF signed THEN Tail(t) ELSE t
    IN  IF ~AllDigits(body) THEN None
        ELSE IF signed /\ Head(t) = "-" THEN Some(0 - DecVal(body, 0))
        ELSE Some(DecVal(body, 0))

\* SQLite's LIKE: % matches any run of characters, _ any one character, and
\* ASCII letters match without regard to case; there is no escape character.
RECURSIVE Like(_, _)
Like(p, s) ==
    IF p = "" THEN s = ""
    ELSE IF Head(p) = "%"
         THEN Like(Tail(p), s) \/ (s # "" /\ Like(p, Tail(s)))
         ELSE /\ s # ""
              /\ (Head(p) = "_" \/ LowerChar(Head(p)) = LowerChar(Head(s)))
              /\ Like(Tail(p), Tail(s))

HexDigits == "0123456789abcdef"
HexSet == {Char(HexDigits, i) : i \in 1..Len(HexDigits)}
IsHex(c) == LowerChar(c) \in HexSet

\* re.compile('[0-9a-f]{8}\-[0-9a-f]{4}\-4[0-9a-f]{3}\-[89ab][0-9a-f]{3}\-[0-9a-f]{12}', re.I).match(s)
UuidMatch(s) ==
    /\ Len(s) >= 36
    /\ \A i \in 1..36 :
          LET c == Char(s, i)
          IN  CASE i \in {9, 14, 19, 24} -> c = "-"
                [] i = 15 -> c = "4"
                [] i = 20 -> LowerChar(c) \in {"8", "9", "a", "b"}
                [] OTHER -> IsHex(c)

\* str(uuid.uuid4()) for the n-th identifier produced (n = 0, 1, ...)
Uuid(n) ==
    "0000000" \o Char(HexDigits, n + 1) \o "-aaaa-4aaa-8aaa-aaaaaaaaaaaa"

(***************************************************************************)
(* The workspace directory served by the backend (users.list,              *)
(* channels.list, groups.list).  It changes over time; the program sees it *)
(* only through update_users and update_channels.                          *)
(***************************************************************************)
U1 == "U15HY5TG8"
U2 == "U2"
ChanGen == "C1"    \* a public channel
ChanOld == "C2"    \* a public channel the directory lists only later
ChanSec == "G1"    \* a private group, which the bot later leaves
ChanDM == "D1"     \* a direct-message channel: in no list of the backend
OpsChannel == "CJ9745N3U"

Member(name, id) == [name |-> name, id |-> id]
Channel(name, id, members) ==
    [name |-> name, id |-> id, is_group |-> FALSE, is_private |-> FALSE, members |-> members]
Group(name, id, members) ==
    [name |-> name, id |-> id, is_group |-> TRUE, is_private |-> FALSE, members |-> members]

\* The snapshots the backend goes through.  In the second one the bot is
\* out of the private group, channel C2 is listed and user bo has joined.
Directory ==
    << [members  |-> <<Member("evan", U1)>>,
        channels |-> <<Channel("gen", ChanGen, {U1, U2})>>,
        groups   |-> <<Group("sec", ChanSec, {U2})>>],
       [members  |-> <<Member("evan", U1), Member("bo", U2)>>,
        channels |-> <<Channel("gen", ChanGen, {U1, U2}), Channel("old", ChanOld, {U1})>>,
        groups   |-> <<>>] >>

(***************************************************************************)
(* The state a handler works on: the cache, the three tables, the          *)
(* identifier counter, and what the handler has done so far (messages      *)
(* sent, backend and store accesses in order, audit lines, and the         *)
(* exception that is propagating, "none" if none is).                      *)
(***************************************************************************)
EmptyDict == [k \in {} |-> None]

EmptyENV ==
    [user_id |-> EmptyDict, id_user |-> EmptyDict, channel_id |-> EmptyDict,
     id_channel |-> EmptyDict, channel_info |-> EmptyDict]

\* dict([(m[key], m[val]) for m in l]): the last entry of a key wins
DictOf(l, key, val) ==
    [k \in {l[i][key] : i \in 1..Len(l)} |->
        l[CHOOSE i \in 1..Len(l) :
              l[i][key] = k /\ \A j \in (i+1)..Len(l) : l[j][key] # k][val]]

\* dict.get(k, None)
Get(d, k) == IF k \in DOMAIN d THEN Some(d[k]) ELSE None

\* d[k] = v
Put(d, k, v) == [x \in DOMAIN d \cup {k} |-> IF x = k THEN v ELSE d[x]]

\* INSERT into a table with UNIQUE(id) ON CONFLICT REPLACE, row by row
RECURSIVE UpsertAll(_, _)
UpsertAll(tbl, rows) ==
    IF rows = <<>> THEN tbl
    ELSE UpsertAll({r \in tbl : r.id # Head(rows).id} \cup {Head(rows)}, Tail(rows))

\* update_users (lines 56-70); the avatar column is left out
update_users(w) ==
    LET info == Directory[epoch].members
    IN  [w EXCEPT !.ENV.user_id = DictOf(info, "name", "id"),
                  !.ENV.id_user = DictOf(info, "id", "name"),
                  !.users = UpsertAll(@, info),
                  !.log = @ \o <<"users.list", "users:write">>]

\* the loop of lines 90-94 as it would be if it left the visibility table
\* to a later step
SetChannelInfoLater(ci, info) == ci

\* the loop of lines 90-94 over the fetched channels
RECURSIVE SetChannelInfo(_, _)
SetChannelInfo(ci, info) ==
    IF info = <<>> THEN ci
    ELSE LET m == Head(info)
         IN  SetChannelInfo(
                 Put(ci, m.id, [is_private |-> m.is_group \/ m.is_private,
                                members |-> m.members]),
                 Tail(info))

ChannelRow(m) == [name |-> m.name, id |-> m.id]
ChannelRows(info) == [i \in 1..Len(info) |-> ChannelRow(info[i])]

\* update_channels (lines 83-102)
update_channels(w) ==
    LET info == Directory[epoch].channels \o Directory[epoch].groups
    IN  [w EXCEPT !.ENV.channel_id = DictOf(info, "name", "id"),
                  !.ENV.id_channel = DictOf(info, "id", "name"),
                  !.ENV.channel_info = SetChannelInfo(@, info),
                  !.channels = UpsertAll(@, ChannelRows(info)),
                  !.log = @ \o <<"channels.list", "groups.list", "channels:write">>]

\* A lookup returns the state it leaves and the value it returns.
Ret(w, v) == [w |-> w, ret |-> v]

\* what the lookups of lines 72-80 and 104-112 return once the cache is as
\* the refresh, if there was one, left it
UserName(w, uid) == Ret(w, Get(w.ENV.id_user, uid))
UserId(w, name) == Ret(w, Get(w.ENV.user_id, name))
ChannelName(w, uid) == Ret(w, Get(w.ENV.id_channel, uid))
ChannelId(w, name) == Ret(w, Get(w.ENV.channel_id, name))

\* get_user_name (lines 72-75)
get_user_name(w, uid) ==
    UserName(IF uid \notin DOMAIN w.ENV.id_user THEN update_users(w) ELSE w, uid)

\* get_user_id (lines 77-80)
get_user_id(w, name) ==
    UserId(IF name \notin DOMAIN w.ENV.user_id THEN update_users(w) ELSE w, name)

\* get_channel_name as it would be if it answered from the mapping it
\* found, refreshing only for the next caller
get_channel_name_stale(w, uid) ==
    Ret(IF uid \notin DOMAIN w.ENV.id_channel THEN update_channels(w) ELSE w,
        Get(w.ENV.id_channel, uid))

\* get_channel_name (lines 104-107)
get_channel_name(w, uid) ==
    ChannelName(IF uid \notin DOMAIN w.ENV.id_channel THEN update_channels(w) ELSE w, uid)

\* get_channel_id (lines 109-112)
get_channel_id(w, name) ==
    ChannelId(IF name \notin DOMAIN w.ENV.channel_id THEN update_channels(w) ELSE w, name)

\* send_message (lines 114-119)
send_message(w, message, channel) ==
    [w EXCEPT !.sent = Append(@, [channel |-> channel, message |-> message])]

\* can_query_channel as it would be without the membership test
can_query_channel_public(w, channel_id, user_id) ==
    IF channel_id \in DOMAIN w.ENV.id_channel THEN Some(TRUE) ELSE None

\* can_query_channel (lines 126-131): the function ends without a return
\* when the channel is not in id_channel, so the call yields None
can_query_channel(w, channel_id, user_id) ==
    IF channel_id \in DOMAIN w.ENV.id_channel
    THEN Some(\/ ~w.ENV.channel_info[channel_id].is_private
              \/ user_id \in w.ENV.channel_info[channel_id].members)
    ELSE None

\* the truth value Python gives an optional boolean
Truthy(v) == v # None /\ v[1]

(***************************************************************************)
(* handle_query (lines 134-233).                                           *)
(***************************************************************************)
DefaultLimit == 10

\* s[:n]
Prefix(s, n) == SubSeq(s, 1, IF Len(s) < n THEN Len(s) ELSE n)

\* a message as send_message gets it: a text, or the lines of a result
\* block (each line the tuple of strings substituted into its format)
TextMsg(t) == [kind |-> "text", text |-> t, lines |-> <<>>]
LinesMsg(k, ls) == [kind |-> k, text |-> "", lines |-> ls]

Raise(w, e) == [w EXCEPT !.exc = e]

\* the plan the parser builds, with the state it has reached; err is the
\* reason of the ValueError raised, None while none is
Plan0(w) ==
    [w |-> w, text |-> <<>>, user |-> None, channel |-> None, sort |-> None,
     limit |-> DefaultLimit, err |-> None]

\* FromToken as it would be without the check of lines 179-180
FromTokenUnchecked(st, value, r) == [st EXCEPT !.w = r.w, !.user = r.ret]

\* lines 177-180, r being what get_user_id returned
FromToken(st, value, r) ==
    IF r.ret = None
    THEN [st EXCEPT !.w = r.w, !.user = r.ret,
                    !.err = Some("User " \o value \o " not found")]
    ELSE [st EXCEPT !.w = r.w, !.user = r.ret]

\* lines 181-184, r being what get_channel_id returned
InToken(st, value, r) ==
    IF r.ret = None
    THEN [st EXCEPT !.w = r.w, !.channel = r.ret,
                    !.err = Some("Channel " \o value \o " not found")]
    ELSE [st EXCEPT !.w = r.w, !.channel = r.ret]

\* lines 185-189
SortToken(st, value) ==
    IF value \in {"asc", "desc"}
    THEN [st EXCEPT !.sort = Some(value)]
    ELSE [st EXCEPT !.err = Some("Invalid sort order " \o value)]

\* lines 190-194, n being int(value)
LimitToken(st, value, n) ==
    IF n # None
    THEN [st EXCEPT !.limit = n[1]]
    ELSE [st EXCEPT !.err = Some(value \o " not a valid number")]

\* lines 174-194, q being p.split(':')
SplitToken(st, q) ==
    IF Len(q) = 1 THEN [st EXCEPT !.text = Append(@, q[1])]
    ELSE IF Len(q) # 2 THEN st
    ELSE IF q[1] = "from"
    THEN FromToken(st, q[2], get_user_id(st.w, Strip(Remove(q[2], "@"))))
    ELSE IF q[1] = "in"
    THEN InToken(st, q[2], get_channel_id(st.w, Strip(Remove(q[2], "#"))))
    ELSE IF q[1] = "sort" THEN SortToken(st, q[2])
    ELSE IF q[1] = "limit" THEN LimitToken(st, q[2], ParseInt(q[2]))
    ELSE st

\* the body of the loop of lines 165-194 for one token p
ParseToken(st, p) ==
    IF Len(p) > 2 /\ Head(p) = ":" /\ Char(p, Len(p)) = ":"
    THEN [st EXCEPT !.text = Append(@, p)]
    ELSE SplitToken(st, SplitOn(p, ":"))

\* the loop of lines 165-194: it stops at the first ValueError
RECURSIVE ParseTokens(_, _)
ParseTokens(st, params) ==
    IF params = <<>> \/ st.err # None THEN st
    ELSE ParseTokens(ParseToken(st, Head(params)), Tail(params))

\* ORDER BY timestamp: rows of equal timestamp keep their rowid order
RECURSIVE InsertSorted(_, _, _)
InsertSorted(sorted, r, desc) ==
    IF sorted = <<>> THEN <<r>>
    ELSE IF (IF desc THEN Head(sorted).timestamp < r.timestamp
                     ELSE Head(sorted).timestamp > r.timestamp)
         THEN <<r>> \o sorted
         ELSE <<Head(sorted)>> \o InsertSorted(Tail(sorted), r, desc)

RECURSIVE OrderBy(_, _, _)
OrderBy(rows, desc, acc) ==
    IF rows = <<>> THEN acc
    ELSE OrderBy(Tail(rows), desc, InsertSorted(acc, Head(rows), desc))

\* the rows the SELECT of lines 162 yields, in the order of the table scan
SelectById(rows, uid) ==
    LET Test(r) == Like(uid, r.id) IN SelectSeq(rows, Test)

\* the rows the SELECT of lines 196-209 yields: `if user:` and `if channel:`
\* add the equality tests; without ORDER BY the rows come in rowid order,
\* or, when the channel test lets SQLite search the index on
\* (channel, timestamp), in the order of that index
SelectByText(rows, st) ==
    LET pattern == "%" \o Join(st.text) \o "%"
        byUser == st.user # None /\ st.user[1] # ""
        byChannel == st.channel # None /\ st.channel[1] # ""
        Test(r) == /\ Like(pattern, r.message)
                   /\ (byUser => r.user = st.user[1])
                   /\ (byChannel => r.channel = st.channel[1])
        hit == SelectSeq(rows, Test)
    IN  IF st.sort # None THEN OrderBy(hit, st.sort[1] = "desc", <<>>)
        ELSE IF byChannel THEN OrderBy(hit, FALSE, <<>>)
        ELSE hit

\* cursor.fetchmany(limit): sqlite3 stops when its row counter equals
\* limit, which a limit below 1 never does
FetchMany(rows, limit) ==
    IF limit >= 1 /\ limit < Len(rows) THEN SubSeq(rows, 1, limit) ELSE rows

\* convert_timestamp (lines 121-124)
convert_timestamp(ts) == "1970-01-01 00:00:0" \o ToString(ts)

\* str(x) in a %s substitution of an optional string
Str(v) == IF v = None THEN "None" ELSE v[1]

\* the line of lines 223-225 for row i
Line(i, userName, channelName) ==
    <<i.message, Str(userName), convert_timestamp(i.timestamp),
      "#" \o channelName, "id:" \o i.id>>

\* the list comprehension of lines 222-226 over the fetched rows: for each
\* row the filter is evaluated first, then the line is built, looking up
\* the author's name and then the channel's; '#' + None is a TypeError
RECURSIVE Render(_, _, _, _)

RenderNamed(event, res, lines, userName, cn) ==
    IF cn.ret = None
    THEN [w |-> Raise(cn.w, "TypeError"), lines |-> lines]
    ELSE Render(cn.w, event, Tail(res),
                Append(lines, Line(Head(res), userName, cn.ret[1])))

RenderRow(event, res, lines, un) ==
    RenderNamed(event, res, lines, un.ret, get_channel_name(un.w, Head(res).channel))

Render(w, event, res, lines) ==
    IF res = <<>> THEN [w |-> w, lines |-> lines]
    ELSE IF "user" \notin event.keys
    THEN [w |-> Raise(w, "KeyError"), lines |-> lines]
    ELSE IF ~Truthy(can_query_channel(w, Head(res).channel, event.user))
    THEN Render(w, event, Tail(res), lines)
    ELSE RenderRow(event, res, lines, get_user_name(w, Head(res).user))

\* lines 227-230
Answer(event, out) ==
    IF out.w.exc # "none" THEN out.w
    ELSE IF out.lines # <<>>
    THEN send_message(out.w, LinesMsg("results", out.lines), event.channel)
    ELSE send_message(out.w, TextMsg("No results found"), event.channel)

\* lines 216-230: run the statement (both SELECTs name the id column),
\* fetch, filter, format and answer
Execute(w, event, rows, limit) ==
    IF "id" \notin schema THEN Raise(w, "OperationalError")
    ELSE Answer(event,
                Render([w EXCEPT !.log = Append(@, "messages:read")], event,
                       FetchMany(rows, limit), <<>>))

\* lines 196-230 and the handler of lines 231-233, st being the parser's
\* result
RunPlan(event, st) ==
    IF st.err # None
    THEN send_message(st.w, TextMsg(st.err[1]), event.channel)
    ELSE Execute(st.w, event, SelectByText(st.w.messages, st), st.limit)

\* lines 160-230, params being the tokens of line 158
RunQuery(w, event, params) ==
    IF params = <<>> THEN Raise(w, "IndexError")
    ELSE IF Prefix(params[1], 3) = "id:"
    THEN Execute(w, event, SelectById(w.messages, SplitOn(params[1], ":")[2]),
                 DefaultLimit)
    ELSE RunPlan(event, ParseTokens(Plan0(w), params))

handle_query(w, event) == RunQuery(w, event, Split(Lower(event.text)))

(***************************************************************************)
(* handle_message (lines 250-285).  An event is a dictionary: keys holds  *)
(* the optional keys it carries ('subtype', 'text', 'user'); channel and  *)
(* ts are always there, previous_message and message in the events of an  *)
(* edit or a deletion.                                                     *)
(***************************************************************************)
BotMention == "<@UJ8U80MKL>"

\* get_user (lines 235-248), on event.get("user")
get_user(id) ==
    IF id = Some("U15HY5TG8") THEN "Evan"
    ELSE IF id = Some("U15HSHSS2") THEN "Tommy"
    ELSE IF id = Some("U15HZ01QX") THEN "James"
    ELSE IF id = Some("U15J5H60P") THEN "Andrew"
    ELSE IF id = Some("U15HRTAHL") THEN "Joe"
    ELSE IF id # None THEN id[1]
    ELSE "bot"

\* event.get("user")
EventUser(event) == IF "user" \in event.keys THEN Some(event.user) ELSE None

HasSubtype(event, st) == "subtype" \in event.keys /\ event.subtype = st

\* datetime.fromtimestamp(float(ts)).strftime("%m/%d/%Y, %H:%M:%S %p")
notice_timestamp(ts) == "01/01/1970, 00:00:0" \o ToString(ts) \o " AM"

\* lines 252-254: the deletion notice; the channel name is looked up while
\* the text is put together, and str + None is a TypeError
SendDeletion(event, cn) ==
    IF cn.ret = None THEN Raise(cn.w, "TypeError")
    ELSE send_message(cn.w,
             LinesMsg("deleted",
                 << <<get_user(event.previous_message.user),
                      notice_timestamp(event.previous_message.ts),
                      cn.ret[1], event.previous_message.text>> >>),
             OpsChannel)

\* DeletionNotice as it would be if the archive mirrored the channel: the
\* record of the deleted message is removed with the notice
DeletionMirrored(w, event) ==
    LET Kept(r) == ~(r.channel = event.channel /\ r.timestamp = event.previous_message.ts)
    IN  SendDeletion(event,
            get_channel_name([w EXCEPT !.messages = SelectSeq(@, Kept)], event.channel))

DeletionNotice(w, event) == SendDeletion(event, get_channel_name(w, event.channel))

\* lines 255-257: the edit notice
SendEdit(event, cn) ==
    IF cn.ret = None THEN Raise(cn.w, "TypeError")
    ELSE send_message(cn.w,
             LinesMsg("changed",
                 << <<get_user(event.message.user),
                      notice_timestamp(event.previous_message.ts),
                      cn.ret[1], event.previous_message.text,
                      event.message.text>> >>),
             OpsChannel)

EditNotice(w, event) == SendEdit(event, get_channel_name(w, event.channel))

\* InsertMessage as it would be without ON CONFLICT REPLACE
InsertMessageKeepsOld(w, event) ==
    [w EXCEPT !.nextId = @ + 1,
              !.messages = IF "id" \in schema
                           THEN Append(@, [id |-> Uuid(w.nextId), message |-> event.text,
                                          user |-> event.user, channel |-> event.channel,
                                          timestamp |-> event.ts])
                           ELSE @,
              !.log = IF "id" \in schema THEN Append(@, "messages:write") ELSE @,
              !.exc = IF "id" \in schema THEN "none" ELSE "OperationalError"]

\* INSERT INTO messages VALUES(?, ?, ?, ?, ?) (lines 280-283): five values,
\* which a table without the id column refuses; UNIQUE(channel, timestamp)
\* ON CONFLICT REPLACE deletes the row in the way and adds the new one
InsertMessage(w, event) ==
    LET row == [id |-> Uuid(w.nextId), message |-> event.text, user |-> event.user,
                channel |-> event.channel, timestamp |-> event.ts]
        Other(r) == ~(r.channel = row.channel /\ r.timestamp = row.timestamp)
        w1 == [w EXCEPT !.nextId = @ + 1]
    IN  IF "id" \notin schema THEN Raise(w1, "OperationalError")
        ELSE [w1 EXCEPT !.messages = Append(SelectSeq(@, Other), row),
                        !.log = Append(@, "messages:write")]

\* lines 264-283: what the event is taken for.  A direct message and a
\* mention followed by a UUID end in handle_query.
Route(w, event) ==
    IF Prefix(event.channel, 1) = "D"
    THEN [w |-> [w EXCEPT !.audit =
                    Append(@, get_user(EventUser(event)) \o "|" \o event.text)],
          event |-> event, query |-> TRUE]
    ELSE IF Prefix(event.text, 12) = BotMention
    THEN IF Len(Split(event.text)) < 2
         THEN [w |-> Raise(w, "IndexError"), event |-> event, query |-> FALSE]
         ELSE IF UuidMatch(Split(event.text)[2])
         THEN [w |-> w, event |-> [event EXCEPT !.text = "id:" \o Split(event.text)[2]],
               query |-> TRUE]
         ELSE [w |-> w, event |-> event, query |-> FALSE]
    ELSE IF "user" \notin event.keys THEN [w |-> w, event |-> event, query |-> FALSE]
    ELSE [w |-> InsertMessage(w, event), event |-> event, query |-> FALSE]

Routed(r) == IF r.query THEN handle_query(r.w, r.event) ELSE r.w

\* Classify as it would be without the test of lines 260-261
ClassifyBotsToo(w, event) ==
    IF w.exc # "none" THEN w
    ELSE IF "text" \notin event.keys THEN w
    ELSE Routed(Route(w, event))

\* lines 258-283, after the notices
Classify(w, event) ==
    IF w.exc # "none" THEN w
    ELSE IF "text" \notin event.keys THEN w
    ELSE IF HasSubtype(event, "bot_message") THEN w
    ELSE Routed(Route(w, event))

\* lines 252-257
Notices(w, event) ==
    IF HasSubtype(event, "message_deleted") THEN DeletionNotice(w, event)
    ELSE IF HasSubtype(event, "message_changed") THEN EditNotice(w, event)
    ELSE w

handle_message(w, event) == Classify(Notices(w, event), event)

TopologyTypes == {"group_joined", "member_joined_channel", "channel_created", "group_left"}

\* lines 298-299, w being the state handle_message left
AfterMessage(w, event) ==
    IF w.exc = "none" /\ HasSubtype(event, "group_leave") THEN update_channels(w) ELSE w

\* the body of the loop of lines 294-301 for one event
DispatchEvent(w, event) ==
    IF event.type = "message" THEN AfterMessage(handle_message(w, event), event)
    ELSE IF event.type \in TopologyTypes THEN update_channels(w)
    ELSE w

(***************************************************************************)
(* The events the session delivers.                                        *)
(***************************************************************************)
NoPrevious == [user |-> None, ts |-> 0, text |-> ""]
NoMessage == [user |-> None, text |-> ""]

Event(type, keys, subtype, text, user, channel, ts, prev, msg) ==
    [type |-> type, keys |-> keys, subtype |-> subtype, text |-> text, user |-> user,
     channel |-> channel, ts |-> ts, previous_message |-> prev, message |-> msg]

\* an ordinary message
Plain(text, user, channel, ts) ==
    Event("message", {"text", "user"}, "", text, user, channel, ts, NoPrevious, NoMessage)

\* a direct message to the bot
Query(text) == Plain(text, U1, ChanDM, 1)

OldBody == [user |-> Some(U1), ts |-> 1, text |-> "Hello world"]
NewBody == [user |-> Some(U1), text |-> "Hello again"]

PlainEvents ==
    {Plain("Hello world", U1, ChanGen, 1),
     Plain("bye", U1, ChanGen, 1),
     Plain("hello secret", U2, ChanSec, 1),
     Plain("hello old", U1, ChanOld, 2)}

MentionEvents ==
    {Plain(BotMention \o " " \o Uuid(0), U1, ChanGen, 2),
     Plain(BotMention \o " hello bot", U1, ChanGen, 2),
     Plain(BotMention, U1, ChanGen, 2)}

QueryEvents ==
    {Query(t) : t \in
        {"hello", "Hello limit:1", "hello limit:0", "hello limit:-1", "hello limit:x",
         "hello sort:asc", "hello sort:desc limit:1", "hello sort:up",
         "hello from:@evan", "hello from:bo", "hello from:zed",
         "in:#gen hello", "hello in:nochan", "in:old from:zed",
         "id:" \o Uuid(0), "id:%", "id:0000000_-aaaa-4aaa-8aaa-aaaaaaaaaaaa",
         "", "  ",
         "hello foo:bar", "hello a:b:c", "foo:bar"}}
    \cup {Plain("hello", U2, ChanDM, 1)}

\* edits and deletions: as Slack sends them, without text and user of
\* their own, and carrying both, in a channel and in a direct message
NoticeEvents ==
    {Event("message", {"subtype"}, "message_deleted", "", "", c, 2, OldBody, NoMessage)
        : c \in {ChanGen, ChanDM}}
    \cup {Event("message", {"subtype"}, "message_changed", "", "", ChanGen, 2, OldBody, NewBody),
          Event("message", {"subtype", "text", "user"}, "message_deleted", "bye", U1,
                ChanGen, 1, OldBody, NoMessage),
          Event("message", {"subtype", "text", "user"}, "message_changed", "bye", U1,
                ChanGen, 1, OldBody, NewBody),
          Event("message", {"subtype", "text", "user"}, "message_changed", "hello", U1,
                ChanDM, 1, OldBody, NewBody)}

OtherMessageEvents ==
    {Event("message", {"subtype", "text", "user"}, "bot_message", "hello from a bot", U1,
           ChanGen, 1, NoPrevious, NoMessage),
     Event("message", {"text"}, "", "hello nobody", "", ChanGen, 1, NoPrevious, NoMessage),
     Event("message", {"user"}, "", "", U1, ChanGen, 1, NoPrevious, NoMessage),
     Event("message", {"subtype", "text", "user"}, "group_leave", "hello secret", U2,
           ChanSec, 1, NoPrevious, NoMessage)}

MessageEvents ==
    PlainEvents \cup MentionEvents \cup QueryEvents \cup NoticeEvents \cup OtherMessageEvents

OtherEvents ==
    {Event(t, {}, "", "", "", "", 0, NoPrevious, NoMessage)
        : t \in {"channel_created", "group_left", "presence_change"}}

\* results of rtm_read() with more than one event
Batches ==
    {<<Query(""), Plain("Hello world", U1, ChanGen, 1)>>,
     <<Plain("hello old", U1, ChanOld, 2), Query("hello")>>}

(***************************************************************************)
(* The state machine.                                                      *)
(***************************************************************************)
\* the messages table as line 33 creates it, and as a database made
\* earlier has it: with the id column the INSERT and the SELECTs name
CreatedSchema == {"message", "user", "channel", "timestamp"}
ExistingSchema == {"id", "message", "user", "channel", "timestamp"}

NoEvent == Event("none", {}, "", "", "", "", 0, NoPrevious, NoMessage)

World ==
    [ENV |-> ENV, messages |-> messages, users |-> users, channels |-> channels,
     nextId |-> nextId, sent |-> <<>>, log |-> <<>>, audit |-> <<>>, exc |-> "none"]

Observed(w, event) ==
    [event |-> event, sent |-> w.sent, log |-> w.log, audit |-> w.audit, exc |-> w.exc]

Commit(w, event) ==
    /\ ENV' = w.ENV
    /\ messages' = w.messages
    /\ users' = w.users
    /\ channels' = w.channels
    /\ nextId' = w.nextId
    /\ last' = Observed(w, event)

Init ==
    /\ pc = "start"
    /\ schema \in {CreatedSchema, ExistingSchema}
    /\ epoch = 1
    /\ ENV = EmptyENV
    /\ messages = <<>>
    /\ users = {}
    /\ channels = {}
    /\ nextId = 0
    /\ last = Observed(World, NoEvent)
    /\ dropped = <<>>

\* lines 288-291: the session is up; both directories are fetched
Bootstrap ==
    /\ pc = "start"
    /\ pc' = "loop"
    /\ Commit(update_channels(update_users(World)), NoEvent)
    /\ UNCHANGED <<schema, epoch, dropped>>

\* the workspace changes behind the program's back
BackendChange ==
    /\ epoch < Len(Directory)
    /\ epoch' = epoch + 1
    /\ UNCHANGED <<pc, schema, ENV, messages, users, channels, nextId, last, dropped>>

\* uuid.uuid4() has been called at most MaxIds times
CommitBounded(w, event) == w.nextId <= MaxIds /\ Commit(w, event)

\* lines 296-299: rtm_read() returned one event of type message
MessageEvent ==
    /\ pc = "loop"
    /\ \E event \in MessageEvents : CommitBounded(DispatchEvent(World, event), event)
    /\ dropped' = <<>>
    /\ UNCHANGED <<pc, schema, epoch>>

\* lines 300-301: rtm_read() returned one event of another type
OtherEvent ==
    /\ pc = "loop"
    /\ \E event \in OtherEvents : Commit(DispatchEvent(World, event), event)
    /\ dropped' = <<>>
    /\ UNCHANGED <<pc, schema, epoch>>

\* what the next event of a batch starts from: the state the previous one
\* left, with nothing sent or accessed yet
NextEventFrom(w) ==
    [w EXCEPT !.sent = <<>>, !.log = <<>>, !.audit = <<>>]

\* the loop of lines 294-301 over the events rtm_read() returned, inside
\* the try of line 293: an exception leaves the loop for the handlers of
\* lines 302-305, and the events behind the one that raised are not read
\* again.  w is the state the batch's first event left.
RECURSIVE RunBatch(_, _)
RunBatch(w, batch) ==
    IF w.exc # "none" \/ Len(batch) = 1
    THEN [w |-> w, event |-> Head(batch), dropped |-> Tail(batch)]
    ELSE RunBatch(DispatchEvent(NextEventFrom(w), batch[2]), Tail(batch))

CommitBatch(r) ==
    /\ CommitBounded(r.w, r.event)
    /\ dropped' = r.dropped

\* lines 293-305: rtm_read() returned several events
BatchOfEvents ==
    /\ pc = "loop"
    /\ \E batch \in Batches :
          CommitBatch(RunBatch(DispatchEvent(World, Head(batch)), batch))
    /\ UNCHANGED <<pc, schema, epoch>>

Next == Bootstrap \/ BackendChange \/ MessageEvent \/ OtherEvent \/ BatchOfEvents

Spec == Init /\ [][Next]_vars

(***************************************************************************)
(* Properties.                                                             *)
(***************************************************************************)
Range(f) == {f[i] : i \in DOMAIN f}

SamePair(r, event) == r.channel = event.channel /\ r.timestamp = event.ts

\* the last event was archived: the INSERT of lines 280-283 went through
Archived == "messages:write" \in Range(last.log)

\* the last event was handed to handle_query as a direct message
DirectQuery ==
    /\ last.event.type = "message"
    /\ "text" \in last.event.keys
    /\ ~HasSubtype(last.event, "bot_message")
    /\ Prefix(last.event.channel, 1) = "D"

\* the rows of the store a line of a result block stands for
RowsOfLine(line) == {i \in 1..Len(messages) : "id:" \o messages[i].id = line[5]}

\* the lines of the result blocks sent while the last event was handled
ResultLines ==
    UNION {Range(m.message.lines) :
              m \in {x \in Range(last.sent) : x.message.kind = "results"}}

\* C1: the store never holds two records with the same (channel, timestamp),
\* and once an event is archived the one record of its pair has its body:
\* a second archive of the same pair replaces the first.
C1_OneRecordPerPair ==
    /\ \A i, j \in 1..Len(messages) :
          (/\ messages[i].channel = messages[j].channel
           /\ messages[i].timestamp = messages[j].timestamp) => i = j
    /\ Archived =>
          /\ Cardinality({i \in 1..Len(messages) : SamePair(messages[i], last.event)}) = 1
          /\ \A i \in 1..Len(messages) :
                SamePair(messages[i], last.event) => messages[i].message = last.event.text

\* two inserts have gone through and one record is left: the second
\* replaced the first, and the record has the later body
C1_Witness ==
    /\ "id" \in schema
    /\ nextId = 2
    /\ Archived
    /\ Len(messages) = 1
    /\ messages[1].id = Uuid(1)
    /\ messages[1].message = "bye"
    /\ last.event.text = "bye"

\* the cache marks channel c private and user u is not among its members
HiddenFrom(c, u) ==
    /\ c \in DOMAIN ENV.channel_info
    /\ ENV.channel_info[c].is_private
    /\ u \notin ENV.channel_info[c].members

\* C2: no result block sent for a query holds a record of a channel the
\* cache marks private and whose cached members do not include the requester.
C2_PrivateRecordsHidden ==
    \A line \in ResultLines : \A i \in RowsOfLine(line) :
        ~HiddenFrom(messages[i].channel, last.event.user)

\* a result block was sent for the query hello while the store held a
\* record matching hello in a private channel the requester is not in
C2_Witness ==
    /\ DirectQuery
    /\ last.event.text = "hello"
    /\ ResultLines # {}
    /\ \E i \in 1..Len(messages) :
          /\ Like("%hello%", messages[i].message)
          /\ HiddenFrom(messages[i].channel, last.event.user)

\* C3: can_query_channel is true for a channel whose visibility data the
\* cache lacks, and otherwise true exactly when the channel is not private
\* or the user is a cached member; stated of the channels of the records in
\* the store, which are the ones handle_query applies it to.
C3_UnknownChannelAllowed ==
    \A i \in 1..Len(messages) : \A u \in {U1, U2} :
        Truthy(can_query_channel(World, messages[i].channel, u))
            = (\/ messages[i].channel \notin DOMAIN ENV.channel_info
               \/ ~HiddenFrom(messages[i].channel, u))

\* the tokens of the last event's text, as line 158 makes them
LastParams == Split(Lower(last.event.text))

\* the last event was a direct message whose first token is id:<x>
IdQuery == DirectQuery /\ LastParams # <<>> /\ Prefix(LastParams[1], 3) = "id:"

IdQueryValue == SubSeq(LastParams[1], 4, Len(LastParams[1]))

\* C4: whatever is sent in answer to id:<x> is 'No results found' or a
\* block of exactly one line, that of the record whose identifier is x.
C4_IdLookupExact ==
    IdQuery =>
        \A m \in Range(last.sent) :
            \/ m.message = TextMsg("No results found")
            \/ /\ m.message.kind = "results"
               /\ Len(m.message.lines) = 1
               /\ m.message.lines[1][5] = "id:" \o IdQueryValue

\* the key of a token of the shape key:value, "" for any other token
KeyOf(p) == IF Len(SplitOn(p, ":")) = 2 THEN SplitOn(p, ":")[1] ELSE ""
ValueOf(p) == SplitOn(p, ":")[2]

\* the last event was a direct message with a free-text query without from:
\* and in: that the parser accepts
FreeTextQuery ==
    /\ DirectQuery
    /\ LastParams # <<>>
    /\ Prefix(LastParams[1], 3) # "id:"
    /\ \A k \in 1..Len(LastParams) : KeyOf(LastParams[k]) \notin {"from", "in"}
    /\ ParseTokens(Plan0(World), LastParams).err = None

LastPlan == ParseTokens(Plan0(World), LastParams)

\* the records matching the text pattern of the last query
Matching == {i \in 1..Len(messages) : Like("%" \o Join(LastPlan.text) \o "%", messages[i].message)}

\* the cache knows the channel and does not hide it from the user
VisibleTo(c, u) == c \in DOMAIN ENV.id_channel /\ ~HiddenFrom(c, u)

\* the lines of the answer to the last query, none if no block was sent
AnswerLines ==
    IF \E k \in 1..Len(last.sent) : last.sent[k].message.kind = "results"
    THEN last.sent[CHOOSE k \in 1..Len(last.sent) :
                       last.sent[k].message.kind = "results"].message.lines
    ELSE <<>>

TimestampOfLine(line) == messages[CHOOSE i \in RowsOfLine(line) : TRUE].timestamp

Min(a, b) == IF a < b THEN a ELSE b

\* C5: a free-text query without filters, all of whose N matching records
\* the requester may see, is answered with min(N, limit) records (none for
\* a negative limit), in the order of the timestamps when a sort is given.
C5_LimitCapsAnswer ==
    (/\ FreeTextQuery
     /\ last.exc = "none"
     /\ \A i \in Matching : VisibleTo(messages[i].channel, last.event.user))
    => /\ Len(AnswerLines) =
              IF LastPlan.limit < 0 THEN 0 ELSE Min(Cardinality(Matching), LastPlan.limit)
       /\ \A a, b \in 1..Len(AnswerLines) :
             (a < b /\ LastPlan.sort # None) =>
                 IF LastPlan.sort = Some("asc")
                 THEN TimestampOfLine(AnswerLines[a]) <= TimestampOfLine(AnswerLines[b])
                 ELSE TimestampOfLine(AnswerLines[a]) >= TimestampOfLine(AnswerLines[b])

\* C6: handle_query raises nothing and sends exactly one message, to the
\* channel the query came from.
C6_QueryAlwaysAnswers ==
    DirectQuery =>
        /\ last.exc = "none"
        /\ Len(last.sent) = 1
        /\ last.sent[1].channel = last.event.channel

\* token k of the last query is from:<name>, and the cache does not know
\* the name
UnresolvedFrom(k) ==
    /\ KeyOf(LastParams[k]) = "from"
    /\ Strip(Remove(ValueOf(LastParams[k]), "@")) \notin DOMAIN ENV.user_id

\* the last event was a direct message with a free-text query in which a
\* from:<name> missed the cache, was followed by a refresh of the users and
\* is still unknown; FromMissed is the first such token
FromMiss ==
    /\ DirectQuery
    /\ LastParams # <<>>
    /\ Prefix(LastParams[1], 3) # "id:"
    /\ "users.list" \in Range(last.log)
    /\ \E k \in 1..Len(LastParams) : UnresolvedFrom(k)

FromMissed ==
    LastParams[CHOOSE k \in 1..Len(LastParams) :
                   UnresolvedFrom(k) /\ \A j \in 1..(k-1) : ~UnresolvedFrom(j)]

UserNotFound ==
    [channel |-> last.event.channel,
     message |-> TextMsg("User " \o ValueOf(FromMissed) \o " not found")]

\* C7 as stated: the error names the user, and the handling touches no
\* table of the store.
C7_NoStoreAccess ==
    FromMiss =>
        /\ UserNotFound \in Range(last.sent)
        /\ Range(last.log) \cap
              {"users:write", "channels:write", "messages:read", "messages:write"} = {}

\* C7, amended: the error naming the user is the one message sent, and the
\* messages table is neither read nor written; the refreshes the lookups
\* triggered do write the users table (and the channels table).
C7_NoMessagesAccess ==
    FromMiss =>
        /\ last.sent = <<UserNotFound>>
        /\ last.exc = "none"
        /\ Range(last.log) \cap {"messages:read", "messages:write"} = {}
        /\ "users:write" \in Range(last.log)

C7_Witness ==
    /\ FromMiss
    /\ last.event.text = "in:old from:zed"
    /\ last.sent = << [channel |-> ChanDM, message |-> TextMsg("User zed not found")] >>
    /\ Len(messages) > 0

\* C8: handling an edit or a deletion leaves the messages table as it was.
C8_NoticesDoNotArchive ==
    [][(\/ HasSubtype(last'.event, "message_deleted")
        \/ HasSubtype(last'.event, "message_changed")) => messages' = messages]_vars

\* the notices of the given kind sent to the operations channel while the
\* last event was handled, each holding all of the given texts
NoticesSent(kind, texts) ==
    {k \in 1..Len(last.sent) :
        /\ last.sent[k].channel = OpsChannel
        /\ last.sent[k].message.kind = kind
        /\ texts \subseteq Range(last.sent[k].message.lines[1])}

\* C9: a deletion is answered with exactly one deletion notice holding the
\* original body, an edit with exactly one edit notice holding the original
\* and the new body.
C9_OneNoticePerEvent ==
    /\ HasSubtype(last.event, "message_deleted") =>
          /\ Len(last.sent) = 1
          /\ Cardinality(NoticesSent("deleted", {last.event.previous_message.text})) = 1
    /\ HasSubtype(last.event, "message_changed") =>
          /\ Len(last.sent) = 1
          /\ Cardinality(NoticesSent("changed", {last.event.previous_message.text,
                                              last.event.message.text})) = 1

\* the text starts with the bot's mention and its second token is a UUID
MentionWithUuid(text) ==
    /\ Prefix(text, 12) = BotMention
    /\ Len(Split(text)) >= 2
    /\ UuidMatch(Split(text)[2])

\* C10: an event with a text and an author, which is no bot message, no
\* direct message and no mention followed by a UUID, is in the store once
\* handled, under an identifier no other record has.
C10_OrdinaryMessageArchived ==
    (/\ last.event.type = "message"
     /\ {"text", "user"} \subseteq last.event.keys
     /\ ~HasSubtype(last.event, "bot_message")
     /\ Prefix(last.event.channel, 1) # "D"
     /\ ~MentionWithUuid(last.event.text))
    => \E i \in 1..Len(messages) :
          /\ messages[i].message = last.event.text
          /\ messages[i].user = last.event.user
          /\ messages[i].channel = last.event.channel
          /\ messages[i].timestamp = last.event.ts
          /\ \A j \in 1..Len(messages) : j # i => messages[j].id # messages[i].id

\* how many times x occurs in the sequence
Count(seq, x) == Cardinality({k \in 1..Len(seq) : seq[k] = x})

\* the channel refreshes made while the last event was handled: each
\* update_channels starts with one channels.list call
ChannelRefreshes == Count(last.log, "channels.list")

\* C11: while a message event of subtype group_leave is processed, the
\* channel directory is refreshed exactly once, also when handle_message
\* fails on the event.
C11_OneRefreshOnGroupLeave ==
    HasSubtype(last.event, "group_leave") => ChannelRefreshes = 1

\* the keys the lookups are tried with: known ones, ones only the current
\* backend knows, and ones nobody knows
LookupUserIds == {U1, U2, "U9"}
LookupUserNames == {"evan", "bo", "zed"}
LookupChannelIds == {ChanGen, ChanOld, ChanSec, ChanDM}
LookupChannelNames == {"gen", "old", "sec", "nochan"}

UsersRefreshLog == <<"users.list", "users:write">>
ChannelsRefreshLog == <<"channels.list", "groups.list", "channels:write">>

\* what the backend holds now
BackendMembers == Directory[epoch].members
BackendChannels == Directory[epoch].channels \o Directory[epoch].groups

\* r is what a lookup of key returned when called in the current state,
\* cached the mapping it reads, after the same mapping in the state it
\* left, fresh the mapping a refresh builds and refreshLog what one
\* refresh does
LookupAsClaimed(r, key, cached, after, fresh, refreshLog) ==
    IF key \in DOMAIN cached
    THEN r.w = World /\ r.ret = Some(cached[key])
    ELSE /\ r.w.log = refreshLog
         /\ after = fresh
         /\ r.ret = Get(fresh, key)

\* C12: each of the four lookups refreshes nothing when the key is cached,
\* refreshes exactly once when it is not, and returns the key's value in
\* the mapping as it is after the refresh, None if the key is not in it.
C12_LookupRefreshesOnMiss ==
    /\ \A uid \in LookupUserIds :
          LookupAsClaimed(get_user_name(World, uid), uid, ENV.id_user,
                          get_user_name(World, uid).w.ENV.id_user,
                          DictOf(BackendMembers, "id", "name"), UsersRefreshLog)
    /\ \A name \in LookupUserNames :
          LookupAsClaimed(get_user_id(World, name), name, ENV.user_id,
                          get_user_id(World, name).w.ENV.user_id,
                          DictOf(BackendMembers, "name", "id"), UsersRefreshLog)
    /\ \A uid \in LookupChannelIds :
          LookupAsClaimed(get_channel_name(World, uid), uid, ENV.id_channel,
                          get_channel_name(World, uid).w.ENV.id_channel,
                          DictOf(BackendChannels, "id", "name"), ChannelsRefreshLog)
    /\ \A name \in LookupChannelNames :
          LookupAsClaimed(get_channel_id(World, name), name, ENV.channel_id,
                          get_channel_id(World, name).w.ENV.channel_id,
                          DictOf(BackendChannels, "name", "id"), ChannelsRefreshLog)

\* a query naming an author the cache did not know: the lookup refreshed
\* the users once, found the author and the query went on to the store
C12_Witness ==
    /\ DirectQuery
    /\ last.event.text = "hello from:bo"
    /\ Count(last.log, "users.list") = 1
    /\ "messages:read" \in Range(last.log)
    /\ "bo" \in DOMAIN ENV.user_id

\* C13: an exception raised while one event is processed costs that event
\* only: the loop goes on (pc stays "loop") and no event of the batch
\* read together with it is left undispatched.
C13_OnlyFailingEventDropped ==
    /\ last.exc # "none" => pc = "loop"
    /\ dropped = <<>>

\* the event is one the claim lets into the archive
Qualifies(event) ==
    /\ event.type = "message"
    /\ {"text", "user"} \subseteq event.keys
    /\ ~HasSubtype(event, "bot_message")
    /\ Prefix(event.channel, 1) # "D"

\* the texts of the events of the model that do not qualify
UnqualifiedTexts == {e.text : e \in {x \in MessageEvents : "text" \in x.keys /\ ~Qualifies(x)}}

\* C14: handle_message inserts a record only for an event that has a text
\* and an author, is no bot message and is not in a direct-message
\* channel; the table never holds the record of a direct message, a bot
\* message or a message without author.
C14_InsertOnlyQualified ==
    /\ Archived => Qualifies(last.event)
    /\ \A i \in 1..Len(messages) :
          /\ Prefix(messages[i].channel, 1) # "D"
          /\ messages[i].user # ""
          /\ messages[i].message \notin UnqualifiedTexts

\* an ordinary message of a public channel has been archived, and its
\* record is the only one in the table
C14_Witness ==
    /\ Archived
    /\ last.event = Plain("hello old", U1, ChanOld, 2)
    /\ messages = << [id |-> Uuid(0), message |-> "hello old", user |-> U1,
                      channel |-> ChanOld, timestamp |-> 2] >>

\* the last event was a direct message with a free-text query the parser
\* accepted and the handler answered
AnsweredFreeText ==
    /\ DirectQuery
    /\ LastParams # <<>>
    /\ Prefix(LastParams[1], 3) # "id:"
    /\ LastPlan.err = None
    /\ last.exc = "none"

\* the first n of the rows, none for n below 1
FirstRows(rows, n) ==
    IF n < 1 THEN <<>> ELSE IF n < Len(rows) THEN SubSeq(rows, 1, n) ELSE rows

\* the rows among them the requester of the last query may see
VisibleRows(rows) ==
    LET Visible(r) == Truthy(can_query_channel(World, r.channel, last.event.user))
    IN  SelectSeq(rows, Visible)

\* the identifiers as the lines of an answer show them
ShownIds(rows) == [k \in 1..Len(rows) |-> "id:" \o rows[k].id]
AnswerIds == [k \in 1..Len(AnswerLines) |-> AnswerLines[k][5]]

\* C15: the answer to a free-text query holds exactly the visible records
\* among the first limit rows that match the store predicate, in their
\* order: the limit cuts the fetch, the visibility filter comes after.
C15_LimitBeforeVisibility ==
    AnsweredFreeText =>
        AnswerIds = ShownIds(VisibleRows(
                        FirstRows(SelectByText(messages, LastPlan), LastPlan.limit)))

\* the values of a mapping
Values(d) == {d[k] : k \in DOMAIN d}

\* C16: after any refresh, complete or not, the name->id mapping, the
\* id->name mapping and the visibility table describe one and the same set
\* of channels, with no entry of a channel the latest fetch did not
\* return; likewise the two user mappings describe the same users.
C16_RefreshAtomic ==
    /\ Values(ENV.channel_id) = DOMAIN ENV.id_channel
    /\ DOMAIN ENV.channel_info = DOMAIN ENV.id_channel
    /\ Values(ENV.user_id) = DOMAIN ENV.id_user

\* the audit line of an event: '<author>|<raw text>', the author as
\* get_user names it
AuditLine(event) == get_user(EventUser(event)) \o "|" \o event.text

\* C17: an event of a direct-message channel that has a text and is no bot
\* message leaves exactly one audit line, its author and raw text, however
\* the query ends; an event of any other kind leaves none.
C17_AuditEveryDirectQuery ==
    IF DirectQuery
    THEN last.audit = <<AuditLine(last.event)>>
    ELSE last.audit = <<>>

\* the (channel, timestamp) pairs the table holds
Pairs(rows) == {<<rows[i].channel, rows[i].timestamp>> : i \in 1..Len(rows)}

\* C18: no step removes a (channel, timestamp) pair from the messages
\* table: a pair that is in it is in it after every event, query, refresh
\* and notice; its record can only be replaced.
C18_PairsNeverRemoved == [][Pairs(messages) \subseteq Pairs(messages')]_vars

\* a deletion has been announced and the record of the deleted message is
\* still in the table
C18_Witness ==
    /\ HasSubtype(last.event, "message_deleted")
    /\ NoticesSent("deleted", {last.event.previous_message.text}) # {}
    /\ <<last.event.channel, last.event.previous_message.ts>> \in Pairs(messages)

\* a token the parser is said to ignore: not of the shape :word:, and
\* either of more than two colon-separated parts or of two with a key
\* that is none of from, in, sort and limit
Ignorable(p) ==
    /\ ~(Len(p) > 2 /\ Head(p) = ":" /\ Char(p, Len(p)) = ":")
    /\ \/ Len(SplitOn(p, ":")) > 2
       \/ Len(SplitOn(p, ":")) = 2 /\ SplitOn(p, ":")[1] \notin {"from", "in", "sort", "limit"}

\* the query without its ignorable tokens
Stripped(text) ==
    LET Kept(p) == ~Ignorable(p) IN Join(SelectSeq(Split(Lower(text)), Kept))

\* free-text queries with ignorable tokens
NoisyTexts == {"hello foo:bar", "hello a:b:c", "foo:bar hello limit:1", "foo:bar"}

\* the plan the parser builds for a query text in the current state
PlanOf(text) == ParseTokens(Plan0(World), Split(Lower(text)))

\* C19: a free-text query is parsed to the same plan, and answered in the
\* same way, as the query without its tokens of unrecognised key and its
\* malformed multi-colon tokens, and such a token raises no parse error.
C19_UnknownTokensIgnored ==
    pc = "loop" =>
        \A t \in NoisyTexts :
            /\ PlanOf(t).err = None
            /\ PlanOf(t) = PlanOf(Stripped(t))
            /\ handle_query(World, Query(t)) = handle_query(World, Query(Stripped(t)))

\* C20: every channel of the id->name mapping has an entry in the
\* visibility table, and once the rows of a query are fetched, filtering
\* and rendering them refreshes the channels no more.
C20_KnownChannelsHaveVisibility ==
    /\ DOMAIN ENV.id_channel \subseteq DOMAIN ENV.channel_info
    /\ \A k \in 1..Len(last.log) :
          last.log[k] = "messages:read" =>
              \A j \in (k+1)..Len(last.log) : last.log[j] # "channels.list"

\* a record of a channel that a refresh of the running loop brought into
\* the cache was filtered and rendered, with no refresh during the query
C20_Witness ==
    /\ DirectQuery
    /\ ChanOld \in DOMAIN ENV.id_channel
    /\ \E line \in ResultLines : line[4] = "#old"
    /\ "channels.list" \notin Range(last.log)

====
